---------------------------- MODULE Spec2Model ----------------------------
(***************************************************************************)
(* Model of src/bib_validator.py: the BibValidator class.                  *)
(*                                                                         *)
(* Python strings are sequences of one-character strings.  Python values   *)
(* that can reach the reconciler from the JSON response (str, int, None)   *)
(* are tagged records, so that truthiness, str() and == behave as in       *)
(* Python instead of being the identity.                                   *)
(***************************************************************************)
EXTENDS Integers, Sequences, FiniteSets, TLC

(***************************************************************************)
(* Bounds                                                                  *)
(***************************************************************************)
MaxEntries == 2

(***************************************************************************)
(* Python values                                                           *)
(***************************************************************************)
PyNone == [t |-> "none", s |-> <<>>, n |-> 0]

PyS(chars) == [t |-> "str", s |-> chars, n |-> 0]

PyI(k) == [t |-> "int", s |-> <<>>, n |-> k]

IsStr(v) == v.t = "str"

\* bool(v): '' , 0 and None are falsy
Truthy(v) == CASE v.t = "str" -> v.s # <<>>
               [] v.t = "int" -> v.n # 0
               [] OTHER -> FALSE

Digit(d) == CASE d = 0 -> "0" [] d = 1 -> "1" [] d = 2 -> "2" [] d = 3 -> "3"
              [] d = 4 -> "4" [] d = 5 -> "5" [] d = 6 -> "6" [] d = 7 -> "7"
              [] d = 8 -> "8" [] OTHER -> "9"

RECURSIVE Digits(_)
Digits(k) == IF k < 10 THEN <<Digit(k)>> ELSE Digits(k \div 10) \o <<Digit(k % 10)>>

\* str(v), as a PyS value
PyStr(v) == CASE v.t = "str" -> v
              [] v.t = "int" -> PyS(Digits(v.n))
              [] OTHER -> PyS(<<"N", "o", "n", "e">>)

(***************************************************************************)
(* Characters                                                              *)
(***************************************************************************)
\* the characters of the model in code-point order
Alphabet == << "\t", " ", "-", ".", "0", "1", "2", "3", "4", "5", "6", "7", "8", "9",
               "A", "B", "D", "N", "X", "Y", "_",
               "a", "b", "c", "d", "e", "n", "o", "x", "y" >>

Ord(c) == CHOOSE k \in 1..Len(Alphabet) : Alphabet[k] = c

\* \s of the re module
IsSpace(c) == c \in {"\t", " "}

\* \w of the re module: letters, digits and the underscore
IsWord(c) == c \notin {"\t", " ", "-", "."}

\* str.lower() on one character
LowerChar(c) == CASE c = "A" -> "a" [] c = "B" -> "b" [] c = "D" -> "d"
                  [] c = "N" -> "n" [] c = "X" -> "x" [] c = "Y" -> "y"
                  [] OTHER -> c

Lower(s) == [k \in 1..Len(s) |-> LowerChar(s[k])]

\* re.sub(r'[^\w\s]', '', s)
RECURSIVE StripPunct(_)
StripPunct(s) ==
    IF s = <<>> THEN <<>>
    ELSE IF IsWord(Head(s)) \/ IsSpace(Head(s))
         THEN <<Head(s)>> \o StripPunct(Tail(s))
         ELSE StripPunct(Tail(s))

\* str.strip()
RECURSIVE LStrip(_)
LStrip(s) == IF s # <<>> /\ IsSpace(Head(s)) THEN LStrip(Tail(s)) ELSE s

RECURSIVE RStrip(_)
RStrip(s) == IF s # <<>> /\ IsSpace(s[Len(s)]) THEN RStrip(SubSeq(s, 1, Len(s) - 1)) ELSE s

Strip(s) == RStrip(LStrip(s))

\* re.sub(r'\s+', ' ', s)
RECURSIVE CollapseSpace(_)
CollapseSpace(s) ==
    IF s = <<>> THEN <<>>
    ELSE IF IsSpace(Head(s))
         THEN <<" ">> \o CollapseSpace(LStrip(s))
         ELSE <<Head(s)>> \o CollapseSpace(Tail(s))

AndSep == <<" ", "a", "n", "d", " ">>

\* s.find(sep): the first index (1-based) at which sep occurs in s, 0 if none
Find(s, sep) ==
    LET hits == {k \in 1..(Len(s) - Len(sep) + 1) : SubSeq(s, k, k + Len(sep) - 1) = sep}
    IN  IF hits = {} THEN 0 ELSE CHOOSE k \in hits : \A h \in hits : k <= h

\* s.split(sep): a sequence of strings
RECURSIVE Split(_, _)
Split(s, sep) ==
    LET k == Find(s, sep)
    IN  IF k = 0 THEN <<s>>
        ELSE <<SubSeq(s, 1, k - 1)>> \o Split(SubSeq(s, k + Len(sep), Len(s)), sep)

\* sep.join(list)
RECURSIVE Join(_, _)
Join(list, sep) ==
    IF list = <<>> THEN <<>>
    ELSE IF Len(list) = 1 THEN list[1]
    ELSE list[1] \o sep \o Join(Tail(list), sep)

\* x < y for Python strings (code-point lexicographic order)
RECURSIVE StrLess(_, _)
StrLess(x, y) ==
    IF y = <<>> THEN FALSE
    ELSE IF x = <<>> THEN TRUE
    ELSE IF Head(x) = Head(y) THEN StrLess(Tail(x), Tail(y))
    ELSE Ord(Head(x)) < Ord(Head(y))

\* insert x into the sorted list
RECURSIVE Insert(_, _)
Insert(x, list) ==
    IF list = <<>> THEN <<x>>
    ELSE IF StrLess(x, Head(list)) THEN <<x>> \o list
    ELSE <<Head(list)>> \o Insert(x, Tail(list))

\* sorted(list)
RECURSIVE Sorted(_)
Sorted(list) == IF list = <<>> THEN <<>> ELSE Insert(Head(list), Sorted(Tail(list)))

(***************************************************************************)
(* difflib.SequenceMatcher(None, a, b).ratio()                             *)
(***************************************************************************)
\* find_longest_match: the longest block a[i..i+k-1] = b[j..j+k-1] inside
\* a[alo..ahi], b[blo..bhi]; among the longest the one that starts earliest
\* in a, and among those the one that starts earliest in b
FindLongestMatch(a, b, alo, ahi, blo, bhi) ==
    LET blocks == {m \in (alo..ahi) \X (blo..bhi) \X (1..(ahi - alo + 1)) :
                      /\ m[1] + m[3] - 1 <= ahi
                      /\ m[2] + m[3] - 1 <= bhi
                      /\ SubSeq(a, m[1], m[1] + m[3] - 1) = SubSeq(b, m[2], m[2] + m[3] - 1)}
    IN  IF blocks = {} THEN <<alo, blo, 0>>
        ELSE CHOOSE m \in blocks : \A o \in blocks :
                \/ m[3] > o[3]
                \/ m[3] = o[3] /\ m[1] < o[1]
                \/ m[3] = o[3] /\ m[1] = o[1] /\ m[2] <= o[2]

\* get_matching_blocks: the number of matched characters
RECURSIVE Matches(_, _, _, _, _, _)
RECURSIVE MatchesAround(_, _, _, _, _, _, _)
Matches(a, b, alo, ahi, blo, bhi) ==
    IF alo > ahi \/ blo > bhi THEN 0
    ELSE MatchesAround(a, b, alo, ahi, blo, bhi, FindLongestMatch(a, b, alo, ahi, blo, bhi))

\* the block m, and the matches to its left and to its right
MatchesAround(a, b, alo, ahi, blo, bhi, m) ==
    IF m[3] = 0 THEN 0
    ELSE m[3] + Matches(a, b, alo, m[1] - 1, blo, m[2] - 1)
              + Matches(a, b, m[1] + m[3], ahi, m[2] + m[3], bhi)

\* ratio() >= pct/100, where ratio() is 2.0*matches/length, and 1.0 for length 0
RatioAtLeast(a, b, pct) ==
    LET length == Len(a) + Len(b)
    IN  IF length = 0 THEN 100 >= pct
        ELSE 200 * Matches(a, b, 1, Len(a), 1, Len(b)) >= pct * length

(***************************************************************************)
(* Dictionaries: functions from a finite set of keys                       *)
(***************************************************************************)
EmptyDict == [k \in {} |-> PyNone]

\* d.get(k, default)
Get(d, k, default) == IF k \in DOMAIN d THEN d[k] ELSE default

\* mutant: the values the entry already has win over the corrections
UpdateKeepsOld(d, u) == d @@ u

\* d.copy() followed by update(u)
Update(d, u) == u @@ d

(***************************************************************************)
(* search_google_scholar                                                   *)
(*                                                                         *)
(* A response is what urlopen and json.loads produce for the request:      *)
(*   kind = "error"    urlopen raises (URLError, HTTPError, timeout)       *)
(*   kind = "garbage"  the body is not JSON, or has no message.items       *)
(*   kind = "json"     data['message']['items'] is the sequence items      *)
(* An item is a dictionary; title and container-title are lists, author a  *)
(* list of dictionaries, published-print a dictionary with date-parts.     *)
(***************************************************************************)
NoResult == [found |-> FALSE, title |-> PyNone, authors |-> <<>>, journal |-> PyNone,
             year |-> PyNone, volume |-> PyNone, issue |-> PyNone, pages |-> PyNone,
             doi |-> PyNone, url |-> PyNone]

\* author.get('given', '') + ' ' + author.get('family', '') raises TypeError
\* unless both are str
AuthorOk(author) ==
    IsStr(Get(author, "given", PyS(<<>>))) /\ IsStr(Get(author, "family", PyS(<<>>)))

AuthorName(author) ==
    Get(author, "given", PyS(<<>>)).s \o <<" ">> \o Get(author, "family", PyS(<<>>)).s

\* TRUE iff building the result dictionary from the item raises
\* (IndexError on an empty list, TypeError on a non-str name part)
ItemRaises(item) ==
    LET titles   == Get(item, "title", <<PyS(<<>>)>>)
        authors  == Get(item, "author", <<>>)
        journals == Get(item, "container-title", <<PyS(<<>>)>>)
        parts    == Get(Get(item, "published-print", EmptyDict), "date-parts", <<<<PyNone>>>>)
    IN  \/ titles = <<>>
        \/ \E k \in 1..Len(authors) : ~AuthorOk(authors[k])
        \/ journals = <<>>
        \/ parts = <<>>
        \/ parts[1] = <<>>

\* the dictionary returned for the first item
ItemResult(item) ==
    LET authors == Get(item, "author", <<>>)
    IN  [found   |-> TRUE,
         title   |-> Get(item, "title", <<PyS(<<>>)>>)[1],
         authors |-> [k \in 1..Len(authors) |-> AuthorName(authors[k])],
         journal |-> Get(item, "container-title", <<PyS(<<>>)>>)[1],
         year    |-> Get(Get(item, "published-print", EmptyDict), "date-parts", <<<<PyNone>>>>)[1][1],
         volume  |-> Get(item, "volume", PyNone),
         issue   |-> Get(item, "issue", PyNone),
         pages   |-> Get(item, "page", PyNone),
         doi     |-> Get(item, "DOI", PyNone),
         url     |-> Get(item, "URL", PyNone)]

\* mutant: the request is sent first and the delay taken afterwards
SearchEventsDelayAfter(delay, query) ==
    << [ev |-> "request", arg |-> query], [ev |-> "sleep", arg |-> <<delay>>] >>

\* the calls search_google_scholar makes on the outside world, in order:
\* time.sleep(self.delay), then urlopen(request)
SearchEvents(delay, query) ==
    << [ev |-> "sleep", arg |-> <<delay>>], [ev |-> "request", arg |-> query] >>

\* the value search_google_scholar returns; every exception raised after
\* the try is caught and turned into None
SearchResult(response) ==
    IF response.kind # "json" THEN NoResult
    ELSE IF response.items = <<>> THEN NoResult
    ELSE IF ItemRaises(response.items[1]) THEN NoResult
    ELSE ItemResult(response.items[1])

search_google_scholar(delay, query, response) ==
    [events |-> SearchEvents(delay, query), result |-> SearchResult(response)]

(***************************************************************************)
(* _fuzzy_match and _author_match                                          *)
(***************************************************************************)
\* the default of the threshold parameter, 0.8, in percent
Threshold == 80

\* re.sub(r'[^\w\s]', '', text.lower())
Clean(text) == StripPunct(Lower(text))

\* _fuzzy_match on two str values
FuzzyMatch(text1, text2) == RatioAtLeast(Clean(text1), Clean(text2), Threshold)

\* normalize_authors
NormalizeAuthors(authors_str) ==
    LET authors == Split(authors_str, AndSep)
    IN  Sorted([k \in 1..Len(authors) |-> CollapseSpace(Strip(authors[k]))])

\* _author_match on two Python values: a non-str argument raises inside the
\* try and the bare except returns False
AuthorMatch(authors1, authors2) ==
    IF IsStr(authors1) /\ IsStr(authors2)
    THEN NormalizeAuthors(authors1.s) = NormalizeAuthors(authors2.s)
    ELSE FALSE

(***************************************************************************)
(* validate_bib_entry                                                      *)
(*                                                                         *)
(* The three messages are "NotFound" (no matching record found),           *)
(* "NeedsFix" (the fixed prefix of the correction message, followed by the *)
(* notes) and "Passed".                                                    *)
(***************************************************************************)
Empty == PyS(<<>>)

Message(prefix, notes) == [prefix |-> prefix, notes |-> notes]

\* f"{title} {authors} {journal} {year}"
SearchQuery(entry) ==
    PyStr(Get(entry, "title", Empty)).s \o <<" ">> \o PyStr(Get(entry, "author", Empty)).s
        \o <<" ">> \o PyStr(Get(entry, "journal", Empty)).s
        \o <<" ">> \o PyStr(Get(entry, "year", Empty)).s

\* mutant: a comparison is made whenever the candidate has a value
ComparableFoundOnly(local, found) == Truthy(found)

\* the guard of each comparison: both values are truthy
Comparable(local, found) == Truthy(local) /\ Truthy(found)

\* mutant: the candidate's DOI replaces a local DOI that differs from it
DoiMissingOrDifferent(entry, sr) == Truthy(sr.doi) /\ Get(entry, "doi", Empty) # sr.doi

\* mutant: the candidate's DOI is proposed whether or not the entry has one
DoiAlways(entry, sr) == Truthy(sr.doi)

\* 'doi' not in entry and search_result['doi']
DoiMissing(entry, sr) == "doi" \notin DOMAIN entry /\ Truthy(sr.doi)

\* one entry of the corrections dictionary, or nothing
Fix(cond, key, value) == IF cond THEN key :> value ELSE EmptyDict

Note(cond, key) == IF cond THEN <<key>> ELSE <<>>

\* mutant: the corrected entry is the corrections alone, without the copy
CorrectedEntryWithoutCopy(entry, corrections) == corrections

\* corrected_entry = entry.copy(); corrected_entry.update(corrections)
CorrectedEntry(entry, corrections) == Update(entry, corrections)

\* mutant: the corrections are written into the entry itself
EntryAfterInPlace(entry, corrections) == Update(entry, corrections)

\* the dictionary passed in, after the call: the copy is updated, not the entry
EntryAfter(entry, corrections) == entry

\* the values validate_bib_entry reads from the entry (lines 128-131, 174, 181)
Local(entry) ==
    [title |-> Get(entry, "title", Empty), author |-> Get(entry, "author", Empty),
     journal |-> Get(entry, "journal", Empty), year |-> Get(entry, "year", Empty),
     volume |-> Get(entry, "volume", Empty), pages |-> Get(entry, "pages", Empty)]

\* ' and '.join(search_result['authors'])
ExpectedAuthors(sr) == PyS(Join(sr.authors, AndSep))

\* the comparisons that are made: the guards of lines 149, 155, 162, 168, 175, 182
Guards(local, sr) ==
    [title   |-> Comparable(local.title, sr.title),
     author  |-> Truthy(local.author) /\ sr.authors # <<>>,
     journal |-> Comparable(local.journal, sr.journal),
     year    |-> Comparable(local.year, sr.year),
     volume  |-> Comparable(local.volume, sr.volume),
     pages   |-> Comparable(local.pages, sr.pages)]

\* the comparison that raises, if any: text2.lower() in _fuzzy_match raises
\* AttributeError when the candidate's title or journal is not a str
Raising(cmp, sr) ==
    IF cmp.title /\ ~IsStr(sr.title) THEN "title"
    ELSE IF cmp.journal /\ ~IsStr(sr.journal) THEN "journal"
    ELSE "none"

\* the fields that get a correction
Fixes(entry, local, sr, cmp) ==
    [title   |-> cmp.title /\ IsStr(sr.title) /\ ~FuzzyMatch(local.title.s, sr.title.s),
     author  |-> cmp.author /\ ~AuthorMatch(local.author, ExpectedAuthors(sr)),
     journal |-> cmp.journal /\ IsStr(sr.journal) /\ ~FuzzyMatch(local.journal.s, sr.journal.s),
     year    |-> cmp.year /\ PyStr(local.year) # PyStr(sr.year),
     volume  |-> cmp.volume /\ PyStr(local.volume) # PyStr(sr.volume),
     pages   |-> cmp.pages /\ local.pages # sr.pages,
     doi     |-> DoiMissing(entry, sr)]

\* the corrections dictionary
Corrections(sr, fix) ==
    Fix(fix.title, "title", sr.title) @@ Fix(fix.author, "author", ExpectedAuthors(sr))
        @@ Fix(fix.journal, "journal", sr.journal) @@ Fix(fix.year, "year", PyStr(sr.year))
        @@ Fix(fix.volume, "volume", PyStr(sr.volume)) @@ Fix(fix.pages, "pages", sr.pages)
        @@ Fix(fix.doi, "doi", sr.doi)

\* validation_notes, one note for each correction
ValidationNotes(fix) ==
    Note(fix.title, "title") \o Note(fix.author, "author") \o Note(fix.journal, "journal")
        \o Note(fix.year, "year") \o Note(fix.volume, "volume") \o Note(fix.pages, "pages")
        \o Note(fix.doi, "doi")

\* the fields on which a comparison was made, in the order of the code, up to
\* the comparison that raised
ComparedFields(cmp, raising) ==
    IF raising = "title" THEN <<"title">>
    ELSE IF raising = "journal"
    THEN Note(cmp.title, "title") \o Note(cmp.author, "author") \o <<"journal">>
    ELSE Note(cmp.title, "title") \o Note(cmp.author, "author") \o Note(cmp.journal, "journal")
            \o Note(cmp.year, "year") \o Note(cmp.volume, "volume") \o Note(cmp.pages, "pages")

\* lines 192-200: what the call returns, or that it raised
Outcome(entry, raising, corrections, notes, compared) ==
    IF raising # "none"
    THEN [raised |-> TRUE, is_valid |-> FALSE, corrected_entry |-> entry,
          message |-> Message("AttributeError", <<raising>>), corrections |-> EmptyDict,
          compared |-> compared, entry_after |-> entry]
    ELSE IF corrections # EmptyDict
    THEN [raised |-> FALSE, is_valid |-> FALSE,
          corrected_entry |-> CorrectedEntry(entry, corrections),
          message |-> Message("NeedsFix", notes), corrections |-> corrections,
          compared |-> compared, entry_after |-> EntryAfter(entry, corrections)]
    ELSE [raised |-> FALSE, is_valid |-> TRUE,
          corrected_entry |-> EntryAfter(entry, corrections),
          message |-> Message("Passed", <<>>), corrections |-> corrections,
          compared |-> compared, entry_after |-> EntryAfter(entry, corrections)]

CompareFixed(entry, sr, cmp, fix) ==
    Outcome(entry, Raising(cmp, sr), Corrections(sr, fix), ValidationNotes(fix),
            ComparedFields(cmp, Raising(cmp, sr)))

CompareGuarded(entry, sr, cmp) == CompareFixed(entry, sr, cmp, Fixes(entry, Local(entry), sr, cmp))

\* the comparison part of validate_bib_entry, for a search result that was found
Compare(entry, sr) == CompareGuarded(entry, sr, Guards(Local(entry), sr))

\* mutant: no early return, the comparison runs on the empty result
NotFoundFallsThrough(entry) == Compare(entry, NoResult)

\* if not search_result: return False, entry, "NotFound"
NotFound(entry) ==
    [raised |-> FALSE, is_valid |-> FALSE, corrected_entry |-> entry,
     message |-> Message("NotFound", <<>>), corrections |-> EmptyDict,
     compared |-> <<>>, entry_after |-> entry]

\* the frame of one call: what the lookup did and returned, the entry passed
\* in, and what the call returns
Frame(entry, search) ==
    (IF ~search.result.found THEN NotFound(entry) ELSE Compare(entry, search.result))
        @@ [events |-> search.events, search_result |-> search.result, entry |-> entry]

\* validate_bib_entry: the frame of the call for the response the lookup gets
validate_bib_entry(delay, entry, response) ==
    Frame(entry, search_google_scholar(delay, SearchQuery(entry), response))

(***************************************************************************)
(* process_bib_file: the state                                             *)
(***************************************************************************)
VARIABLES
    self,               \* the BibValidator: [delay]
    args,               \* input: the file at input_file; output_file: given or None
    pc,                 \* "start", "loop", "done", "raised", "reported", "exited"
    exc,                \* the exception that left process_bib_file, or "none"
    entries,            \* bib_database.entries
    idx,                \* the number of entries the for loop has finished
    results,            \* the results dictionary
    corrected_entries,  \* the list handed to _save_corrected_bib
    calls,              \* the frames of the validate_bib_entry calls made so far
    log,                \* time.sleep, urlopen and per-entry logger calls, in order
    output,             \* the entries handed to the writer: [written, entries]
    subject,            \* Reconcile: the entry and the response under test
    main,               \* main(): results as returned to it, the report, the exit code
    pure                \* the pure function under test, its arguments and its result

vars == <<self, args, pc, exc, entries, idx, results, corrected_entries, calls, log,
          output, subject, main, pure>>

NoResults == [total_entries |-> 0, valid_entries |-> 0, corrected_entries |-> 0,
              invalid_entries |-> 0, corrections |-> <<>>]

NoOutput == [written |-> FALSE, entries |-> <<>>]

NoSubject == [entry |-> EmptyDict, response |-> [kind |-> "error", items |-> <<>>]]

\* main() before process_bib_file returns; exit_code -1: main has not returned
NoMain == [has_results |-> FALSE, results |-> NoResults, report_written |-> FALSE,
           report |-> NoResults, exit_code |-> -1]

NoPure == [fn |-> "none", x |-> PyNone, y |-> PyNone, result |-> "pending"]

\* the results dictionary of lines 252-258
InitialResults(bib_entries) ==
    [total_entries |-> Len(bib_entries), valid_entries |-> 0, corrected_entries |-> 0,
     invalid_entries |-> 0, corrections |-> <<>>]

\* message.startswith("NeedsFix")
StartsWithNeedsFix(message) == message.prefix = "NeedsFix"

\* mutant: every entry that is not valid counts as corrected
CounterWithoutPrefixTest(call) ==
    IF call.is_valid THEN "valid_entries" ELSE "corrected_entries"

\* which counter the entry increments
Counter(call) ==
    IF call.is_valid THEN "valid_entries"
    ELSE IF StartsWithNeedsFix(call.message) THEN "corrected_entries"
    ELSE "invalid_entries"

\* what the entry appends to corrected_entries
Disposition(call) ==
    IF call.is_valid THEN call.entry_after
    ELSE IF StartsWithNeedsFix(call.message) THEN call.corrected_entry
    ELSE call.entry_after

\* the item appended to results['corrections']
ResultItem(call) ==
    [id |-> call.entry_after["ID"], valid |-> call.is_valid, message |-> call.message,
     corrections |-> IF ~call.is_valid THEN call.corrected_entry ELSE EmptyDict]

\* the results dictionary after one iteration of the loop
Recorded(res, call) ==
    [res EXCEPT ![Counter(call)] = @ + 1,
                !.corrections = Append(@, ResultItem(call))]

\* the logger call that ends the iteration
VerdictEvent(call) == [ev |-> "verdict", arg |-> <<call.entry_after["ID"]>>]

(***************************************************************************)
(* process_bib_file: the steps                                             *)
(***************************************************************************)
\* lines 234-260: check that the file exists, read and parse it
Load ==
    /\ pc = "start"
    /\ IF ~args.input.exists
       THEN /\ pc' = "raised"
            /\ exc' = "FileNotFoundError"
            /\ UNCHANGED <<entries, results>>
       ELSE IF ~args.input.parses
       THEN /\ pc' = "raised"
            /\ exc' = "ParseError"
            /\ UNCHANGED <<entries, results>>
       ELSE /\ pc' = "loop"
            /\ entries' = args.input.records
            /\ results' = InitialResults(args.input.records)
            /\ UNCHANGED exc
    /\ UNCHANGED <<self, args, idx, corrected_entries, calls, log, output, subject, main, pure>>

\* lines 263-285: one iteration of the for loop, for the response the lookup gets
Iterate(Responses) ==
    /\ pc = "loop"
    /\ idx < Len(entries)
    /\ \E response \in Responses :
          \E call \in {validate_bib_entry(self.delay, entries[idx + 1], response)} :
              /\ calls' = Append(calls, call)
              /\ entries' = [entries EXCEPT ![idx + 1] = call.entry_after]
              /\ IF call.raised
                 THEN /\ pc' = "raised"
                      /\ exc' = "AttributeError"
                      /\ log' = log \o call.events
                      /\ UNCHANGED <<idx, results, corrected_entries>>
                 ELSE /\ results' = Recorded(results, call)
                      /\ corrected_entries' = Append(corrected_entries, Disposition(call))
                      /\ log' = log \o call.events \o <<VerdictEvent(call)>>
                      /\ idx' = idx + 1
                      /\ UNCHANGED <<pc, exc>>
    /\ UNCHANGED <<self, args, output, subject, main, pure>>

\* lines 287-292: hand corrected_entries to the writer if output_file is given;
\* opening or writing the file may raise OSError
Save ==
    /\ pc = "loop"
    /\ idx = Len(entries)
    /\ IF args.output_file
       THEN \E ok \in BOOLEAN :
              /\ output' = [written |-> ok, entries |-> corrected_entries]
              /\ pc' = IF ok THEN "done" ELSE "raised"
              /\ exc' = IF ok THEN exc ELSE "OSError"
       ELSE /\ pc' = "done"
            /\ UNCHANGED <<output, exc>>
    /\ UNCHANGED <<self, args, entries, idx, results, corrected_entries, calls, log, subject, main, pure>>

(***************************************************************************)
(* main                                                                    *)
(***************************************************************************)
\* main always passes an output file: args.output or "corrected_" + basename
FromMain == args.output_file

\* mutant: the except clause does not return 1
ExitCodeAlwaysZero(raised) == 0

\* return 1 in the except clause, return 0 after the try
ExitCode(raised) == IF raised THEN 1 ELSE 0

\* lines 349-363: process_bib_file has returned its results; generate_report
\* writes the report from them; opening or writing the file may raise OSError
GenerateReport ==
    /\ pc = "done"
    /\ FromMain
    /\ \E ok \in BOOLEAN :
          /\ main' = [main EXCEPT !.has_results = TRUE, !.results = results,
                                  !.report_written = ok,
                                  !.report = IF ok THEN results ELSE NoResults]
          /\ pc' = IF ok THEN "reported" ELSE "raised"
          /\ exc' = IF ok THEN exc ELSE "OSError"
    /\ UNCHANGED <<self, args, entries, idx, results, corrected_entries, calls, log, output,
                   subject, pure>>

\* lines 365-369: an exception from the try is caught and main returns 1;
\* otherwise main returns 0
Exit ==
    /\ pc \in {"reported", "raised"}
    /\ FromMain
    /\ main' = [main EXCEPT !.exit_code = ExitCode(pc = "raised")]
    /\ pc' = "exited"
    /\ UNCHANGED <<self, args, exc, entries, idx, results, corrected_entries, calls, log,
                   output, subject, pure>>

(***************************************************************************)
(* Inputs: field values, entries of the file, responses of the service     *)
(***************************************************************************)
Abba     == PyS(<<"A", "b", "b", "a">>)
AbbaDot  == PyS(<<"a", "b", "b", "a", ".">>)
Abbc     == PyS(<<"A", "b", "b", "c">>)
Xyxy     == PyS(<<"X", "y", "x", "y">>)
Nano     == PyS(<<"N", "a", "n", "o">>)
NanoLow  == PyS(<<"n", "a", "n", "o">>)
Dx       == PyS(<<"D", "x">>)
AbAndXy  == PyS(<<"A", " ", "B", " ", "a", "n", "d", " ", "X", " ", "Y">>)
Nd       == PyS(<<"N", " ", "D">>)
Y2020    == PyS(<<"2", "0", "2", "0">>)
Vol7     == PyS(<<"7">>)
Vol8     == PyS(<<"8">>)
Pages19  == PyS(<<"1", "-", "9">>)
Pages18  == PyS(<<"1", "-", "8">>)
DoiX     == PyS(<<"1", "0", ".", "1", "x">>)
DoiY     == PyS(<<"1", "0", ".", "1", "y">>)

\* an optional value: a key that may be absent from a dictionary
Opt(values, default) ==
    {[has |-> FALSE, val |-> default]} \cup {[has |-> TRUE, val |-> v] : v \in values}

Some(v) == [has |-> TRUE, val |-> v]

None(default) == [has |-> FALSE, val |-> default]

Field(key, opt) == IF opt.has THEN key :> opt.val ELSE EmptyDict

\* an entry as bibtexparser returns it: ID and the fields the file gives
Entry(id, title, author, journal, year, volume, pages, doi) ==
    ("ID" :> PyS(<<id>>)) @@ Field("title", title) @@ Field("author", author)
        @@ Field("journal", journal) @@ Field("year", year) @@ Field("volume", volume)
        @@ Field("pages", pages) @@ Field("doi", doi)

Person(given, family) == ("given" :> PyS(<<given>>)) @@ ("family" :> PyS(<<family>>))

AuthorsAbXy == <<Person("A", "B"), Person("X", "Y")>>
AuthorsXyAb == <<Person("X", "Y"), Person("A", "B")>>
AuthorsNd   == <<Person("N", "D")>>

DateParts(year) == "date-parts" :> <<<<year>>>>

\* an item of a Crossref response
Item(title, author, journal, published, volume, page, doi) ==
    Field("title", title) @@ Field("author", author) @@ Field("container-title", journal)
        @@ Field("published-print", published) @@ Field("volume", volume)
        @@ Field("page", page) @@ Field("DOI", doi)

RespError   == [kind |-> "error", items |-> <<>>]
RespGarbage == [kind |-> "garbage", items |-> <<>>]
RespNoItems == [kind |-> "json", items |-> <<>>]
RespItem(item) == [kind |-> "json", items |-> <<item>>]

\* the entries of the files of Spec
FullEntry   == Entry("k", Some(Abba), Some(AbAndXy), Some(Nano), Some(Y2020), Some(Vol7),
                     Some(Pages19), Some(DoiX))
SparseEntry == Entry("m", Some(Abba), None(Empty), None(Empty), Some(Y2020), None(Empty),
                     None(Empty), None(Empty))
BareEntry   == Entry("k", None(Empty), Some(Nd), None(Empty), None(Empty), None(Empty),
                     None(Empty), None(Empty))

EntryPool == {FullEntry, SparseEntry, BareEntry}

\* fuzzy-equal title and journal, permuted authors, another DOI
ItemSame  == Item(Some(<<AbbaDot>>), Some(AuthorsXyAb), Some(<<NanoLow>>),
                  Some(DateParts(PyI(2020))), Some(PyI(7)), Some(Pages19), Some(DoiY))
\* nothing but a title and another year
ItemYear  == Item(Some(<<Abba>>), None(<<>>), None(<<>>), Some(DateParts(PyI(2021))),
                  None(PyNone), None(PyNone), None(PyNone))
\* every field differs
ItemOther == Item(Some(<<Abbc>>), Some(AuthorsNd), Some(<<Dx>>), Some(DateParts(PyI(2021))),
                  Some(Vol8), Some(Pages18), Some(DoiY))
\* a title that is a number: an unexpected type that the parse accepts
ItemNumberTitle == Item(Some(<<PyI(5)>>), None(<<>>), None(<<>>), None(EmptyDict),
                        None(PyNone), None(PyNone), None(PyNone))
\* an empty title list: the parse raises IndexError
ItemNoTitle == Item(Some(<<>>), Some(AuthorsNd), None(<<>>), None(EmptyDict),
                    None(PyNone), None(PyNone), Some(DoiY))

ResponsePool == {RespError, RespGarbage, RespNoItems, RespItem(ItemSame), RespItem(ItemYear),
                 RespItem(ItemOther), RespItem(ItemNumberTitle), RespItem(ItemNoTitle)}

Delays == {1, 2}

RECURSIVE SeqsUpTo(_, _)
SeqsUpTo(S, n) ==
    IF n = 0 THEN {<<>>}
    ELSE LET shorter == SeqsUpTo(S, n - 1)
         IN  shorter \cup {Append(q, x) : q \in {r \in shorter : Len(r) = n - 1}, x \in S}

\* the file at input_file: missing, malformed, or a sequence of entries
InputFiles ==
    {[exists |-> FALSE, parses |-> FALSE, records |-> <<>>],
     [exists |-> TRUE, parses |-> FALSE, records |-> <<>>]}
    \cup {[exists |-> TRUE, parses |-> TRUE, records |-> r] : r \in SeqsUpTo(EntryPool, MaxEntries)}

(***************************************************************************)
(* Specification of process_bib_file                                       *)
(***************************************************************************)
Init ==
    /\ self \in [delay : Delays]
    /\ args \in [input : InputFiles, output_file : BOOLEAN]
    /\ pc = "start"
    /\ exc = "none"
    /\ entries = <<>>
    /\ idx = 0
    /\ results = NoResults
    /\ corrected_entries = <<>>
    /\ calls = <<>>
    /\ log = <<>>
    /\ output = NoOutput
    /\ subject = NoSubject
    /\ main = NoMain
    /\ pure = NoPure

IteratePool == Iterate(ResponsePool)

Next ==
    \/ Load
    \/ IteratePool
    \/ Save
    \/ GenerateReport
    \/ Exit

Spec == Init /\ [][Next]_vars

(***************************************************************************)
(* Specification of validate_bib_entry alone: one entry and one response,  *)
(* reconciled once and then once more on the record the first call         *)
(* returned                                                                *)
(***************************************************************************)
\* the four fields that are present together or absent together in WideEntries
Rest == {[journal |-> None(Empty), year |-> None(Empty), volume |-> None(Empty),
          pages |-> None(Empty)],
         [journal |-> Some(Nano), year |-> Some(Y2020), volume |-> Some(Vol7),
          pages |-> Some(Pages19)]}

WideEntries ==
    {Entry("k", title, author, rest.journal, rest.year, rest.volume, rest.pages, doi) :
        title \in Opt({Empty, Abba}, Empty), author \in Opt({AbAndXy}, Empty),
        rest \in Rest, doi \in Opt({Empty, DoiX}, Empty)}

WideItems ==
    {Item(title, author, journal, published, volume, page, doi) :
        title \in Opt({<<Abba>>, <<Abbc>>}, <<>>),
        author \in Opt({AuthorsAbXy, AuthorsNd}, <<>>),
        journal \in Opt({<<Nano>>, <<Dx>>}, <<>>),
        published \in Opt({DateParts(PyI(2020)), DateParts(PyI(2021))}, EmptyDict),
        volume \in Opt({Vol7, Vol8}, PyNone),
        page \in Opt({Pages19, Pages18}, PyNone),
        doi \in Opt({DoiX, DoiY}, PyNone)}

\* every field differs, and volume and page are JSON numbers
ItemTyped == Item(Some(<<Abbc>>), Some(AuthorsNd), Some(<<Dx>>),
                  Some(DateParts(PyI(2021))), Some(PyI(8)), Some(PyI(18)), Some(DoiY))

WideResponses == ResponsePool \cup {RespItem(ItemTyped)} \cup {RespItem(item) : item \in WideItems}

InitReconcile ==
    /\ self = [delay |-> 1]
    /\ args = [input |-> [exists |-> FALSE, parses |-> FALSE, records |-> <<>>],
               output_file |-> FALSE]
    /\ pc = "first"
    /\ exc = "none"
    /\ entries = <<>>
    /\ idx = 0
    /\ results = NoResults
    /\ corrected_entries = <<>>
    /\ calls = <<>>
    /\ log = <<>>
    /\ output = NoOutput
    /\ subject \in [entry : WideEntries, response : WideResponses]
    /\ main = NoMain
    /\ pure = NoPure

\* validate_bib_entry(entry) with the response the lookup gets
Reconcile ==
    /\ pc = "first"
    /\ \E call \in {validate_bib_entry(self.delay, subject.entry, subject.response)} :
           /\ calls' = <<call>>
           /\ log' = log \o call.events
           /\ pc' = IF call.raised THEN "raised" ELSE "second"
           /\ exc' = IF call.raised THEN "AttributeError" ELSE exc
    /\ UNCHANGED <<self, args, entries, idx, results, corrected_entries, output, subject, main, pure>>

\* validate_bib_entry on the record the first call returned, same response
ReconcileAgain ==
    /\ pc = "second"
    /\ \E call \in {validate_bib_entry(self.delay, calls[1].corrected_entry, subject.response)} :
           /\ calls' = Append(calls, call)
           /\ log' = log \o call.events
           /\ pc' = IF call.raised THEN "raised" ELSE "end"
           /\ exc' = IF call.raised THEN "AttributeError" ELSE exc
    /\ UNCHANGED <<self, args, entries, idx, results, corrected_entries, output, subject, main, pure>>

NextReconcile ==
    \/ Reconcile
    \/ ReconcileAgain

SpecReconcile == InitReconcile /\ [][NextReconcile]_vars

(***************************************************************************)
(* Specification of the two comparisons alone: _author_match and           *)
(* _fuzzy_match applied once to a pair of arguments                        *)
(***************************************************************************)
\* names of one or two words, the second with two spaces between the words
NameX      == <<"x">>
NameY      == <<"y">>
NameAb     == <<"a", " ", "b">>
NameAbWide == <<"a", " ", " ", "b">>

NamePool == {NameX, NameY, NameAb, NameAbWide}

\* lists of one or two names
AuthorLists == {<<n>> : n \in NamePool} \cup {<<n, o>> : n \in NamePool, o \in NamePool}

\* the word "and" with whitespace on both sides: single spaces, more spaces,
\* and a tab (as a line break of the file would leave) next to the word
Separators == {AndSep,
               <<" ", " ", "a", "n", "d", " ">>,
               <<" ", "a", "n", "d", " ", " ">>,
               <<" ", "a", "n", "d", "\t", " ">>,
               <<" ", "\t", "a", "n", "d", " ">>}

\* the arguments of _author_match: author strings, and values that are not str
AuthorArgs ==
    {PyS(Join(list, sep)) : list \in AuthorLists, sep \in Separators} \cup {PyNone, PyI(5)}

\* the arguments of _fuzzy_match: str values
AUnder == PyS(<<"a", "_">>)
ALone  == PyS(<<"a">>)
Aaa   == PyS(<<"a", "a", "a">>)
Abaa  == PyS(<<"a", "b", "a", "a">>)
ABBA  == PyS(<<"A", "B", "B", "A">>)
AbDashBa == PyS(<<"a", "b", "-", "b", "a">>)
ABSpace  == PyS(<<"a", " ", "b">>)
Dash  == PyS(<<"-">>)
Dot   == PyS(<<".">>)

TextArgs == {Empty, Dash, Dot, ALone, AUnder, Aaa, Abaa, Abba, AbbaDot, ABBA, AbDashBa, Abbc, Xyxy,
             Nano, NanoLow, ABSpace}

PyBool(b) == IF b THEN "True" ELSE "False"

InitMatch ==
    /\ self = [delay |-> 1]
    /\ args = [input |-> [exists |-> FALSE, parses |-> FALSE, records |-> <<>>],
               output_file |-> FALSE]
    /\ pc = "call"
    /\ exc = "none"
    /\ entries = <<>>
    /\ idx = 0
    /\ results = NoResults
    /\ corrected_entries = <<>>
    /\ calls = <<>>
    /\ log = <<>>
    /\ output = NoOutput
    /\ subject = NoSubject
    /\ main = NoMain
    /\ \/ pure \in [fn : {"_author_match"}, x : AuthorArgs, y : AuthorArgs, result : {"pending"}]
       \/ pure \in [fn : {"_fuzzy_match"}, x : TextArgs, y : TextArgs, result : {"pending"}]

\* self._author_match(x, y)
CallAuthorMatch ==
    /\ pc = "call"
    /\ pure.fn = "_author_match"
    /\ pure' = [pure EXCEPT !.result = PyBool(AuthorMatch(pure.x, pure.y))]
    /\ pc' = "returned"
    /\ UNCHANGED <<self, args, exc, entries, idx, results, corrected_entries, calls, log,
                   output, subject, main>>

\* self._fuzzy_match(x, y)
CallFuzzyMatch ==
    /\ pc = "call"
    /\ pure.fn = "_fuzzy_match"
    /\ pure' = [pure EXCEPT !.result = PyBool(FuzzyMatch(pure.x.s, pure.y.s))]
    /\ pc' = "returned"
    /\ UNCHANGED <<self, args, exc, entries, idx, results, corrected_entries, calls, log,
                   output, subject, main>>

NextMatch ==
    \/ CallAuthorMatch
    \/ CallFuzzyMatch

SpecMatch == InitMatch /\ [][NextMatch]_vars

(***************************************************************************)
(* Properties                                                              *)
(***************************************************************************)
\* the records as they were read from the source
Records == args.input.records

\* the verdict of a call that returned, from what the lookup and the
\* comparison found (not from the returned flag and message)
Verdict(call) ==
    IF ~call.search_result.found THEN "Unresolved"
    ELSE IF call.corrections = EmptyDict THEN "Valid"
    ELSE "Corrected"

\* the record r with the corrections c laid over it
Overlay(r, c) == [k \in DOMAIN r \cup DOMAIN c |-> IF k \in DOMAIN c THEN c[k] ELSE r[k]]

IdOf(r) == Get(r, "ID", PyNone)

\* the calls that returned
Returned == {k \in 1..Len(calls) : ~calls[k].raised}

NumberOf(verdict) == Cardinality({k \in Returned : Verdict(calls[k]) = verdict})

\* process_bib_file handed its collection to the writer
Handed == args.output_file /\ (pc = "done" \/ exc = "OSError")

\* C1: when process_bib_file completes, the collection handed to the writer
\* has as many records as the input and its i-th record carries the ID of
\* the i-th input record; while the loop runs the collection is the prefix
\* of that result.
C1_OutputKeepsEveryEntry ==
    /\ pc \in {"loop", "done"} =>
          /\ Len(corrected_entries) = idx
          /\ idx <= Len(Records)
          /\ \A k \in 1..idx : IdOf(corrected_entries[k]) = IdOf(Records[k])
    /\ pc = "done" => Len(corrected_entries) = Len(Records)
    /\ Handed =>
          /\ Len(output.entries) = Len(Records)
          /\ \A k \in 1..Len(Records) : IdOf(output.entries[k]) = IdOf(Records[k])

\* C1 witness: a completed run over two records with different IDs, one of
\* them corrected and one unresolved, whose collection was written
C1_Witness ==
    /\ pc = "done"
    /\ output.written
    /\ Len(Records) = 2
    /\ IdOf(Records[1]) # IdOf(Records[2])
    /\ NumberOf("Corrected") = 1
    /\ NumberOf("Unresolved") = 1

\* C2: total is the number of input records; every finished record has
\* incremented exactly the counter of its verdict, so that on completion
\* total = valid + corrected + unresolved; the result sequence holds one
\* (ID, verdict) item per record, in the order of processing.
C2_CountsMatchVerdicts ==
    pc \in {"loop", "done"} =>
       /\ results.total_entries = Len(Records)
       /\ results.valid_entries = NumberOf("Valid")
       /\ results.corrected_entries = NumberOf("Corrected")
       /\ results.invalid_entries = NumberOf("Unresolved")
       /\ results.valid_entries + results.corrected_entries + results.invalid_entries = idx
       /\ pc = "done" => idx = results.total_entries
       /\ Len(results.corrections) = idx
       /\ \A k \in 1..idx :
             LET item == results.corrections[k]
                 v    == Verdict(calls[k])
             IN  /\ item.id = IdOf(Records[k])
                 /\ item.valid = (v = "Valid")
                 /\ StartsWithNeedsFix(item.message) = (v = "Corrected")
                 /\ (item.message.prefix = "NotFound") = (v = "Unresolved")

\* C2 witness: a completed run over two records, one corrected and one
\* unresolved
C2_Witness ==
    /\ pc = "done"
    /\ results.total_entries = 2
    /\ results.corrected_entries = 1
    /\ results.invalid_entries = 1

\* C3: a Corrected entry contributes the original record overlaid with its
\* corrections, a Valid or Unresolved entry contributes the record as read,
\* and the records of the parsed collection are never changed.
C3_DispositionByVerdict ==
    pc \in {"loop", "done", "raised"} /\ exc \notin {"FileNotFoundError", "ParseError"} =>
       /\ entries = Records
       /\ \A k \in 1..Len(corrected_entries) :
             IF Verdict(calls[k]) = "Corrected"
             THEN corrected_entries[k] = Overlay(Records[k], calls[k].corrections)
             ELSE corrected_entries[k] = Records[k]

\* C3 witness: a Corrected entry whose output record differs from the record
\* read, next to a Valid entry
C3_Witness ==
    /\ pc = "done"
    /\ Len(corrected_entries) = 2
    /\ Verdict(calls[1]) = "Corrected"
    /\ corrected_entries[1] # Records[1]
    /\ Verdict(calls[2]) = "Valid"

\* C4: when the lookup yields no candidate, validate_bib_entry returns the
\* Unresolved verdict (not valid, the not-found message), compares no field
\* and returns a record equal to the one passed in, field for field.
C4_NoCandidateIsUnresolved ==
    \A k \in 1..Len(calls) :
       ~calls[k].search_result.found =>
          /\ ~calls[k].raised
          /\ ~calls[k].is_valid
          /\ calls[k].message = Message("NotFound", <<>>)
          /\ calls[k].compared = <<>>
          /\ calls[k].corrections = EmptyDict
          /\ DOMAIN calls[k].corrected_entry = DOMAIN calls[k].entry
          /\ \A f \in DOMAIN calls[k].entry : calls[k].corrected_entry[f] = calls[k].entry[f]

\* C4 witness: a full entry whose lookup returned no candidate
C4_Witness ==
    /\ Len(calls) >= 1
    /\ ~calls[1].search_result.found
    /\ {"title", "author", "journal", "year", "volume", "pages", "doi"} \subseteq DOMAIN calls[1].entry
    /\ Truthy(calls[1].entry["title"])

\* C5 (as claimed): no lookup outcome makes an exception leave
\* validate_bib_entry, and the batch goes on to the remaining entries.
C5_LookupFailureNeverAborts ==
    /\ \A k \in 1..Len(calls) : ~calls[k].raised
    /\ exc # "AttributeError"

\* C6: the corrections contain doi only when the entry has no doi key and
\* the candidate supplies one; an entry that has a doi keeps it in the
\* returned record, whatever the candidate's is.
C6_DoiOnlyAdded ==
    \A k \in Returned :
       /\ "doi" \in DOMAIN calls[k].corrections =>
             /\ "doi" \notin DOMAIN calls[k].entry
             /\ calls[k].search_result.found
             /\ Truthy(calls[k].search_result.doi)
             /\ calls[k].corrections["doi"] = calls[k].search_result.doi
       /\ "doi" \in DOMAIN calls[k].entry =>
             /\ "doi" \in DOMAIN calls[k].corrected_entry
             /\ calls[k].corrected_entry["doi"] = calls[k].entry["doi"]

\* C6 witness: an entry with a DOI, a candidate with another DOI, and a
\* returned record that is corrected elsewhere but keeps the local DOI
C6_Witness ==
    /\ Len(calls) >= 1
    /\ 1 \in Returned
    /\ Get(calls[1].entry, "doi", Empty) = DoiX
    /\ calls[1].search_result.doi = DoiY
    /\ calls[1].corrections # EmptyDict
    /\ calls[1].corrected_entry["doi"] = DoiX

\* the local value and the candidate value of a field are the same value:
\* both empty or absent, or the same string; year and volume are compared
\* as the strings str() gives
SameText(local, found) == (~Truthy(local) /\ ~Truthy(found)) \/ local = found

SameNumber(local, found) == (~Truthy(local) /\ ~Truthy(found)) \/ local = PyStr(found)

Identical(entry, sr) ==
    /\ SameText(Get(entry, "title", Empty), sr.title)
    /\ SameText(Get(entry, "author", Empty), PyS(Join(sr.authors, AndSep)))
    /\ SameText(Get(entry, "journal", Empty), sr.journal)
    /\ SameNumber(Get(entry, "year", Empty), sr.year)
    /\ SameNumber(Get(entry, "volume", Empty), sr.volume)
    /\ SameText(Get(entry, "pages", Empty), sr.pages)
    /\ SameText(Get(entry, "doi", Empty), sr.doi)

\* C7: an entry and a candidate with the same value on every comparable
\* field reconcile to Valid with no correction, and reconciling the returned
\* record against the same candidate once more is Valid with no correction.
C7_IdenticalIsValid ==
    Len(calls) >= 1 /\ calls[1].search_result.found
        /\ Identical(calls[1].entry, calls[1].search_result) =>
       \A k \in 1..Len(calls) :
          /\ ~calls[k].raised
          /\ calls[k].is_valid
          /\ calls[k].corrections = EmptyDict
          /\ calls[k].message = Message("Passed", <<>>)
          /\ calls[k].corrected_entry = subject.entry

\* C7 witness: an entry with all seven fields, identical to the candidate,
\* after the second reconciliation
C7_Witness ==
    /\ pc = "end"
    /\ Len(calls) = 2
    /\ calls[1].search_result.found
    /\ Identical(calls[1].entry, calls[1].search_result)
    /\ \A f \in {"title", "author", "journal", "year", "volume", "pages", "doi"} :
          f \in DOMAIN calls[1].entry /\ Truthy(calls[1].entry[f])
    /\ calls[2].is_valid

\* a value that is present and not empty
Present(v) == v.t # "none" /\ (v.t = "str" => v.s # <<>>)

LocalPresent(entry, f) == f \in DOMAIN entry /\ Present(entry[f])

FoundPresent(sr, f) ==
    CASE f = "title"   -> Present(sr.title)
      [] f = "author"  -> sr.authors # <<>>
      [] f = "journal" -> Present(sr.journal)
      [] f = "year"    -> Present(sr.year)
      [] f = "volume"  -> Present(sr.volume)
      [] OTHER         -> Present(sr.pages)

SixFields == {"title", "author", "journal", "year", "volume", "pages"}

\* C8: one of the six compared fields is corrected only if its value is
\* present and non-empty on both sides; a value on the candidate side alone
\* is never filled in.
C8_NoCorrectionWithoutBothSides ==
    \A k \in Returned : \A f \in SixFields :
       f \in DOMAIN calls[k].corrections =>
          /\ LocalPresent(calls[k].entry, f)
          /\ FoundPresent(calls[k].search_result, f)
          /\ calls[k].search_result.found

\* C8 witness: the candidate has a title and a journal, the entry has a title
\* key with an empty value and no journal; the record is corrected elsewhere
\* and neither field is filled in
C8_Witness ==
    /\ Len(calls) >= 1
    /\ 1 \in Returned
    /\ calls[1].search_result.found
    /\ Truthy(calls[1].search_result.title)
    /\ Truthy(calls[1].search_result.journal)
    /\ Get(calls[1].entry, "title", PyNone) = Empty
    /\ "journal" \notin DOMAIN calls[1].entry
    /\ calls[1].corrections # EmptyDict
    /\ calls[1].corrected_entry["title"] = Empty
    /\ "journal" \notin DOMAIN calls[1].corrected_entry

\* C9 (as claimed): the corrections stored with a per-entry result are empty
\* unless the verdict is Corrected.
C9_CorrectionsEmptyUnlessCorrected ==
    pc \in {"loop", "done"} =>
       \A k \in 1..Len(results.corrections) :
          Verdict(calls[k]) # "Corrected" => results.corrections[k].corrections = EmptyDict

\* the events of record k: one delay of the configured length, the lookup
\* request for the record's search key, and the verdict
EventsOf(k) ==
    << [ev |-> "sleep", arg |-> <<self.delay>>],
       [ev |-> "request", arg |-> SearchQuery(Records[k])],
       [ev |-> "verdict", arg |-> <<IdOf(Records[k])>>] >>

SourceFailed == ~args.input.exists \/ ~args.input.parses

\* every step of the run was carried out: the source was parsed, every record
\* processed, the collection and the report written
Successful ==
    /\ ~SourceFailed
    /\ idx = Len(Records)
    /\ \A k \in 1..Len(calls) : ~calls[k].raised
    /\ output.written
    /\ main.report_written

\* C11: when the input file is missing or cannot be parsed, no lookup is
\* issued, no collection and no report is written, and main returns 1; main
\* returns 0 exactly when the run completed successfully.
C11_SourceFailureAbortsWithOne ==
    /\ SourceFailed /\ pc # "start" =>
          /\ pc \in {"raised", "exited"}
          /\ exc \in {"FileNotFoundError", "ParseError"}
          /\ log = <<>>
          /\ calls = <<>>
          /\ output = NoOutput
          /\ ~main.report_written
          /\ pc = "exited" => main.exit_code = 1
    /\ pc = "exited" =>
          /\ main.exit_code \in {0, 1}
          /\ main.exit_code = 0 <=> Successful
    /\ pc # "exited" => main.exit_code = -1

\* C11 witness: main has returned 1 for a file that exists and does not parse
C11_Witness ==
    /\ pc = "exited"
    /\ args.input.exists
    /\ ~args.input.parses
    /\ exc = "ParseError"
    /\ main.exit_code = 1

\* the write of the collection at the end of process_bib_file failed
WriteFailed == exc = "OSError" /\ ~output.written

\* C12 (as claimed): when the write of the output collection fails, the
\* results accumulated during the pass still reach the caller, and the
\* report is made from them.
C12_ResultsSurviveWriteFailure ==
    pc = "exited" /\ WriteFailed =>
       /\ main.has_results
       /\ main.results = results

\* the call of SpecMatch has returned
ReturnedFrom(fn) == pc = "returned" /\ pure.fn = fn

\* q holds the elements of p, each as often, in some order
IsPermutation(p, q) ==
    /\ Len(p) = Len(q)
    /\ \E f \in Permutations(1..Len(p)) : \A k \in 1..Len(p) : q[k] = p[f[k]]

\* a name with leading and trailing whitespace removed and every other run
\* of whitespace replaced by one space
Canonical(name) == CollapseSpace(Strip(name))

CanonicalNames(list) == [k \in 1..Len(list) |-> Canonical(list[k])]

\* the lists of names that v is a rendering of, for some separator
ListsOf(v) == {list \in AuthorLists : \E sep \in Separators : v = PyS(Join(list, sep))}

\* a and b differ at most in the length of their runs of whitespace
SameButWhitespace(a, b) == CollapseSpace(a) = CollapseSpace(b)

\* C13 (as claimed): _author_match returns True exactly when the two strings
\* hold the same multiset of canonical names: a list matches each of its
\* permutations, and two strings that differ only in the amount of whitespace
\* inside names or around the separator match; an argument that is not a
\* string gives False, and the call never raises.
C13_AuthorMatchIgnoresOrderAndSpace ==
    ReturnedFrom("_author_match") =>
       /\ pure.result \in {"True", "False"}
       /\ ~IsStr(pure.x) \/ ~IsStr(pure.y) => pure.result = "False"
       /\ \A p \in ListsOf(pure.x), q \in ListsOf(pure.y) :
             /\ pure.result = "True" <=> IsPermutation(CanonicalNames(p), CanonicalNames(q))
             /\ IsPermutation(p, q) => pure.result = "True"
       /\ IsStr(pure.x) /\ IsStr(pure.y) /\ SameButWhitespace(pure.x.s, pure.y.s)
             => pure.result = "True"

Max(m, n) == IF m >= n THEN m ELSE n

\* the length of the longest common subsequence of a and b
RECURSIVE Lcs(_, _)
Lcs(a, b) ==
    IF a = <<>> \/ b = <<>> THEN 0
    ELSE IF Head(a) = Head(b) THEN 1 + Lcs(Tail(a), Tail(b))
    ELSE Max(Lcs(Tail(a), b), Lcs(a, Tail(b)))

\* 2 * Lcs / (Len(a) + Len(b)) >= pct / 100, and 1.0 for two empty strings
LcsRatioAtLeast(a, b, pct) ==
    Len(a) + Len(b) = 0 \/ 200 * Lcs(a, b) >= pct * (Len(a) + Len(b))

IsAlnum(c) == IsWord(c) /\ c # "_"

\* lower-cased, every character that is neither alphanumeric nor whitespace
\* removed
Normalized(text) == SelectSeq(Lower(text), LAMBDA c : IsAlnum(c) \/ IsSpace(c))

\* C14 (as claimed): _fuzzy_match returns True exactly when the
\* longest-common-subsequence ratio of the two values, lower-cased and with
\* every character that is neither alphanumeric nor whitespace removed, is
\* at least 0.80; two values that differ only in letter case or in such
\* characters match.
C14_FuzzyMatchByNormalizedRatio ==
    ReturnedFrom("_fuzzy_match") =>
       /\ pure.result = "True" <=>
             LcsRatioAtLeast(Normalized(pure.x.s), Normalized(pure.y.s), Threshold)
       /\ Normalized(pure.x.s) = Normalized(pure.y.s) => pure.result = "True"

=============================================================================
